---------------------------- MODULE Spec2Model ----------------------------
(***************************************************************************)
(* jipe: a router (Mediator, src/src/jipe.ts) that composes processes      *)
(* speaking newline-delimited JSON-RPC 2.0 over Channels                   *)
(* (src/src/channel.ts).                                                   *)
(*                                                                         *)
(* Granularity.  Node runs one callback to completion and drains the       *)
(* nextTick / promise queues before it takes the next I/O event.  So one   *)
(* inbound line is one step (Receive), and the work queued by a step       *)
(* (the `.then` of sendMessage, the flow of a resumed stream, the          *)
(* `.then` of Promise.all) runs as steps that every Receive has to wait    *)
(* for (MicrotaskPending).                                                 *)
(*                                                                         *)
(* Values.  A JSON object is a record whose DOMAIN is the set of its own   *)
(* properties, so hasOwnProperty is a DOMAIN test and JSON.stringify's     *)
(* dropping of undefined properties is the absence of the field.  A dotted *)
(* name built by a template string (`request.${method}`) is the tuple of   *)
(* its parts (<<"request", method>>).                                      *)
(***************************************************************************)
EXTENDS Integers, Sequences, FiniteSets, TLC

\* ------------------------------------------------------------- bounds
\* number of child processes named on the command line
NChildren == 2
\* lines other than its first jipe.start that the peers send in total
MaxRequests == 2
\* Result / Failure lines the peers send in total
MaxResponses == 2
\* largest identifier a peer puts on a line
MaxId == 2

\* ---------------------------------------------------------- constants
lhsChannel == 0
UndefinedId == 0
METHOD_NOT_FOUND == -32601

Children == 1..NChildren
Channels == {lhsChannel} \cup Children

\* --------------------------------------------------------------- state
VARIABLES
  chan,          \* per Channel: others, paused, awaiting, processing, next_id
  startRequest,  \* per child: <<>> while the promise is pending, else <<msg>>
  dispatch,      \* the Map name -> owner, as its entries in insertion order
  listening,     \* the 'request' listeners (forwarders) are registered
  pendingThen,   \* sendRequest calls whose `.then` has not run yet
  crashed,       \* an exception reached the event loop
  requestsLeft,  \* environment: lines the peers may still send
  responsesLeft,
  announced,     \* environment: children that sent their first jipe.start
  event,         \* observation: what the last step handled: op is the type
                 \* of the line the handler got ("buffered" when the line
                 \* went to the paused stream), message the line, heard the
                 \* listeners that got it; for the barrier, message is `all`
                 \* and order the order the announcements were seen in;
                 \* topics the event names the line was published under
  written,       \* observation: the messages the last step wrote, in order
  open,          \* ghost: delivered, unanswered reply-expecting Requests
  arrival,       \* ghost: children in the order their jipe.start was
                 \* seen, until the barrier
  running        \* feature host (Jipe.start): Requests whose handler was
                 \* called and is awaited

vars == <<chan, startRequest, dispatch, listening, pendingThen, crashed,
          requestsLeft, responsesLeft, announced, event, written, open,
          arrival, running>>

\* ------------------------------------------------------------ messages
Has(message, name) == name \in DOMAIN message

IdOf(request) == IF Has(request, "id") THEN request.id ELSE UndefinedId

getMessageType(message) ==
  IF ~Has(message, "jsonrpc") THEN "malformed"
  ELSE IF Has(message, "method") THEN "request"
  ELSE IF Has(message, "error") THEN "failure"
  ELSE IF Has(message, "result") THEN "result"
  ELSE "malformed"

path(type) ==
  CASE type = "result"    -> << <<"message">>, <<"response", ".">>, <<"result", ".">> >>
    [] type = "failure"   -> << <<"message">>, <<"response", ".">>, <<"failure", ".">> >>
    [] type = "request"   -> << <<"message">>, <<"request", ".">> >>
    [] type = "malformed" -> << <<"malformed", ".">> >>

MethodOf(request) == IF Has(request, "method") THEN request.method ELSE "undefined"

RECURSIVE ExpandPath(_, _)
ExpandPath(p, request) ==
  IF p = <<>> THEN <<>>
  ELSE LET prefix == Head(p)[1]
           dot == Len(Head(p)) = 2
           more == IF dot THEN << <<prefix>>, <<prefix, MethodOf(request)>> >>
                   ELSE << <<prefix>> >>
       IN more \o ExpandPath(Tail(p), request)

getEventSequence(type, request) == ExpandPath(path(type), request)

InSeq(x, s) == \E i \in 1..Len(s) : s[i] = x


\* An optional value (a JavaScript value that may be undefined): <<>> or <<v>>.
Prop(obj, name) == IF Has(obj, name) THEN <<obj[name]>> ELSE <<>>

\* JSON.stringify followed by the peer's JSON.parse: an object keeps the
\* properties whose value is not undefined.
stringify(obj) == [k \in {n \in DOMAIN obj : obj[n] # <<>>} |-> obj[k][1]]

\* ------------------------------------------------------ Channel (output)
\* The operations thread a record st through the calls of one callback:
\* chan, startRequest, arrival, pendingThen, open, written, crashed, heard,
\* running, dispatch, and topics (the events handler emitted, in order).

sendMessage(st, c, message) ==
  [st EXCEPT !.written = Append(@, [channel |-> c, message |-> stringify(message)])]

\* sendNotification that takes an identifier from the counter and drops it
sendNotificationConsumesId(st, c, method, params) ==
  sendMessage([st EXCEPT !.chan[c].next_id = @ + 1], c,
              [jsonrpc |-> <<"2.0">>, params |-> params, method |-> <<method>>])

\* sendNotification that asks for a reply: it mints an identifier and
\* registers a PendingCall
sendNotificationExpectsReply(st, c, method, params) ==
  LET request == [jsonrpc |-> <<"2.0">>, id |-> <<st.chan[c].next_id>>,
                  method |-> <<method>>, params |-> params]
      s1 == [st EXCEPT !.chan[c].next_id = @ + 1]
      s2 == sendMessage(s1, c, request)
  IN  [s2 EXCEPT !.pendingThen =
         Append(@, [channel |-> c,
                    rcb |-> [request |-> stringify(request),
                             callback |-> [promise |-> "ignored"]]])]

sendNotification(st, c, method, params) ==
  sendMessage(st, c, [jsonrpc |-> <<"2.0">>, params |-> params, method |-> <<method>>])

\* sendRequest that keeps the caller's identifier on the forwarded Request
sendRequestKeepsCallerId(st, c, method, params, callback) ==
  LET request == [jsonrpc |-> <<"2.0">>, id |-> <<callback.msg.id>>,
                  method |-> <<method>>, params |-> params]
      s2 == sendMessage(st, c, request)
  IN  [s2 EXCEPT !.pendingThen =
         Append(@, [channel |-> c,
                    rcb |-> [request |-> stringify(request), callback |-> callback]])]

\* sendRequest that does not pass the params on
sendRequestDropsParams(st, c, method, params, callback) ==
  LET request == [jsonrpc |-> <<"2.0">>, id |-> <<st.chan[c].next_id>>,
                  method |-> <<method>>, params |-> <<>>]
      s1 == [st EXCEPT !.chan[c].next_id = @ + 1]
      s2 == sendMessage(s1, c, request)
  IN  [s2 EXCEPT !.pendingThen =
         Append(@, [channel |-> c,
                    rcb |-> [request |-> stringify(request), callback |-> callback]])]

sendRequest(st, c, method, params, callback) ==
  LET request == [jsonrpc |-> <<"2.0">>, id |-> <<st.chan[c].next_id>>,
                  method |-> <<method>>, params |-> params]
      s1 == [st EXCEPT !.chan[c].next_id = @ + 1]
      s2 == sendMessage(s1, c, request)
  IN  [s2 EXCEPT !.pendingThen =
         Append(@, [channel |-> c,
                    rcb |-> [request |-> stringify(request), callback |-> callback]])]

RECURSIVE RemoveFirst(_, _)
RemoveFirst(s, x) ==
  IF s = <<>> THEN <<>>
  ELSE IF Head(s) = x THEN Tail(s)
  ELSE <<Head(s)>> \o RemoveFirst(Tail(s), x)

\* a release that resumes the stream whatever is left in the set
releaseAlwaysResumes(st, c, request) ==
  [st EXCEPT !.chan[c].processing = @ \ {IdOf(request)},
             !.chan[c].paused = FALSE,
             !.open[c] = RemoveFirst(@, request)]

\* processing.delete(request.id); if (processing.size === 0) others.resume()
release(st, c, request) ==
  LET processing == st.chan[c].processing \ {IdOf(request)}
  IN  [st EXCEPT !.chan[c].processing = processing,
                 !.chan[c].paused = IF processing = {} THEN FALSE ELSE @,
                 !.open[c] = RemoveFirst(@, request)]

sendError(st, c, request, code, message, data) ==
  sendMessage(release(st, c, request), c,
    [jsonrpc |-> <<"2.0">>, id |-> Prop(request, "id"),
     error |-> <<stringify([code |-> code, message |-> message, data |-> data])>>])

\* sendResult that takes the identifier from the channel's own counter
sendResultMintsId(st, c, request, result) ==
  sendMessage(release(st, c, request), c,
    [jsonrpc |-> <<"2.0">>, id |-> <<st.chan[c].next_id>>, result |-> <<result>>])

sendResult(st, c, request, result) ==
  sendMessage(release(st, c, request), c,
    [jsonrpc |-> <<"2.0">>, id |-> Prop(request, "id"), result |-> <<result>>])

\* a lookup that takes the oldest pending call, whatever the identifier
awaitingGetOldest(awaiting, id) ==
  {rcb \in awaiting : \A e \in awaiting : rcb.request.id <= e.request.id}

\* awaiting: the Map id -> RequestAndCallback, as the set of its values
awaitingGet(awaiting, id) == {rcb \in awaiting : rcb.request.id = id}

awaitingSet(awaiting, rcb) ==
  {e \in awaiting : e.request.id # rcb.request.id} \cup {rcb}

\* a delete that leaves the Map as it is
awaitingDeleteKeeps(awaiting, id) == awaiting

awaitingDelete(awaiting, id) == {e \in awaiting : e.request.id # id}

\* ------------------------------------------------------------- Mediator
dispatchHas(d, name) == \E i \in 1..Len(d) : d[i].name = name

\* dispatch.get(name): <<>> (undefined) or the one-element array of owners
dispatchGet(d, name) ==
  IF dispatchHas(d, name)
  THEN (CHOOSE e \in {d[i] : i \in 1..Len(d)} : e.name = name).handler
  ELSE <<>>

\* /^request\./.test(name)
isRequestName(name) == Len(name) >= 2 /\ name[1] = "request"

\* the result and error callbacks the forwarder passes to sendRequest
resolve(st, callback, result) ==
  IF Has(callback.msg, "id")
  THEN sendResult(st, callback.channel, callback.msg, result)
  ELSE st

\* an error callback that does not pass error.data on
rejectDropsData(st, callback, error) ==
  IF Has(callback.msg, "id")
  THEN sendError(st, callback.channel, callback.msg,
                 Prop(error, "code"), Prop(error, "message"), <<>>)
  ELSE st

reject(st, callback, error) ==
  IF Has(callback.msg, "id")
  THEN sendError(st, callback.channel, callback.msg,
                 Prop(error, "code"), Prop(error, "message"), Prop(error, "data"))
  ELSE st

\* a forwarder that answers method-not-found without looking at msg.respond
forwarderAnswersNotifications(st, d, c, msg) ==
  LET name == <<"request", msg.method>>
      handler == dispatchGet(d, name)
      respond == Has(msg, "id")
  IN  IF handler # <<>> /\ respond
      THEN sendRequest(st, handler[1], msg.method, Prop(msg, "params"),
                       [channel |-> c, msg |-> msg])
      ELSE IF handler # <<>>
      THEN sendNotification(st, handler[1], msg.method, Prop(msg, "params"))
      ELSE sendError(st, c, msg, <<METHOD_NOT_FOUND>>,
                     << <<"Method", msg.method, "not found">> >>, <<>>)

\* a forwarder that places a call for a Request without identifier as well
forwarderCallsForNotifications(st, d, c, msg) ==
  LET name == <<"request", msg.method>>
      handler == dispatchGet(d, name)
      respond == Has(msg, "id")
  IN  IF handler # <<>>
      THEN sendRequest(st, handler[1], msg.method, Prop(msg, "params"),
                       [channel |-> c, msg |-> msg])
      ELSE IF respond
      THEN sendError(st, c, msg, <<METHOD_NOT_FOUND>>,
                     << <<"Method", msg.method, "not found">> >>, <<>>)
      ELSE st

forwarder(st, d, c, msg) ==
  LET name == <<"request", msg.method>>
      handler == dispatchGet(d, name)
      respond == Has(msg, "id")
  IN  IF handler # <<>> /\ respond
      THEN sendRequest(st, handler[1], msg.method, Prop(msg, "params"),
                       [channel |-> c, msg |-> msg])
      ELSE IF handler # <<>>
      THEN sendNotification(st, handler[1], msg.method, Prop(msg, "params"))
      ELSE IF respond
      THEN sendError(st, c, msg, <<METHOD_NOT_FOUND>>,
                     << <<"Method", msg.method, "not found">> >>, <<>>)
      ELSE st

\* a listener that enters the first name of a jipe.start Request at once
startListenerRegistersAtOnce(st, c, msg) ==
  IF st.startRequest[c] = <<>>
  THEN [st EXCEPT !.startRequest[c] = <<msg>>, !.arrival = Append(@, c),
                  !.dispatch = IF Has(msg, "params")
                               THEN Append(@, [name |-> msg.params.implements[1],
                                               handler |-> <<c>>])
                               ELSE @]
  ELSE st

\* channel.on('request.jipe.start', msg => resolve([channel, msg]))
startListener(st, c, msg) ==
  IF st.startRequest[c] = <<>>
  THEN [st EXCEPT !.startRequest[c] = <<msg>>, !.arrival = Append(@, c)]
  ELSE st

\* ------------------------------------------------------- Channel (input)
\* the 'request' listeners registered when the channels are made
onRequestFromTheStart(registered) == TRUE

\* the 'request' listeners exist once the barrier has registered them
onRequest(registered) == registered

\* a handler that does not pause the stream
holdWithoutPause(st, c, message) ==
  [st EXCEPT !.chan[c].processing = @ \cup {IdOf(message)},
             !.open[c] = IF getMessageType(message) = "request" /\ Has(message, "id")
                         THEN Append(@, message) ELSE @]

\* this.processing.add(request.id); this.others.pause()
hold(st, c, message) ==
  [st EXCEPT !.chan[c].processing = @ \cup {IdOf(message)},
             !.chan[c].paused = TRUE,
             !.open[c] = IF getMessageType(message) = "request" /\ Has(message, "id")
                         THEN Append(@, message) ELSE @]

\* handler, for a chunk of `others` (a Request or a malformed line)
handleOther(st, d, registered, c, message) ==
  LET type == getMessageType(message)
      events == getEventSequence(type, message)
      s1 == hold(st, c, message)
      forward == onRequest(registered) /\ InSeq(<<"request">>, events)
      start == c \in Children /\ InSeq(<<"request", "jipe.start">>, events)
      s2 == IF forward THEN forwarder(s1, d, c, message) ELSE s1
      s3 == IF start THEN startListener(s2, c, message) ELSE s2
  IN  [s3 EXCEPT !.heard = (IF forward THEN {"forwarder"} ELSE {})
                           \cup (IF start THEN {"startRequest"} ELSE {}),
                 !.topics = events]

\* a handler that lets a response without PendingCall pass
handleResponseIgnoresUnknown(st, c, message) ==
  LET type == getMessageType(message)
      found == awaitingGet(st.chan[c].awaiting, IdOf(message))
  IN  IF found = {}
      THEN st
      ELSE LET rcb == CHOOSE e \in found : TRUE
               s1 == [st EXCEPT !.chan[c].awaiting = awaitingDelete(@, rcb.request.id),
                                !.topics = getEventSequence(type, rcb.request)]
           IN  IF type = "failure"
               THEN reject(s1, rcb.callback, message.error)
               ELSE resolve(s1, rcb.callback, message.result)

\* a handler that leaves a response alone while a Request is open on the
\* channel it came on
handleResponseWhenFlowing(st, c, message) ==
  LET type == getMessageType(message)
      found == awaitingGet(st.chan[c].awaiting, IdOf(message))
  IN  IF found = {}
      THEN [st EXCEPT !.crashed = TRUE]
      ELSE IF st.chan[c].paused
      THEN st
      ELSE LET rcb == CHOOSE e \in found : TRUE
               s1 == [st EXCEPT !.chan[c].awaiting = awaitingDelete(@, rcb.request.id),
                                !.topics = getEventSequence(type, rcb.request)]
           IN  IF type = "failure"
               THEN reject(s1, rcb.callback, message.error)
               ELSE resolve(s1, rcb.callback, message.result)

\* handler, for a chunk of `responses` (a Result or a Failure)
handleResponse(st, c, message) ==
  LET type == getMessageType(message)
      found == awaitingGet(st.chan[c].awaiting, IdOf(message))
  IN  IF found = {}
      THEN [st EXCEPT !.crashed = TRUE]
      ELSE LET rcb == CHOOSE e \in found : TRUE
               s1 == [st EXCEPT !.chan[c].awaiting = awaitingDelete(@, rcb.request.id),
                                !.topics = getEventSequence(type, rcb.request)]
           IN  IF type = "failure"
               THEN reject(s1, rcb.callback, message.error)
               ELSE resolve(s1, rcb.callback, message.result)

\* a demux with one stream: a response waits behind the held Requests
demuxOneStream(st, d, registered, c, message) ==
  IF st.chan[c].paused
  THEN [st EXCEPT !.chan[c].others = Append(@, message)]
  ELSE IF getMessageType(message) \in {"result", "failure"}
  THEN handleResponse(st, c, message)
  ELSE handleOther(st, d, registered, c, message)

\* a demux that puts a held line in front of the lines held before it
demuxNewestFirst(st, d, registered, c, message) ==
  IF getMessageType(message) \in {"result", "failure"}
  THEN handleResponse(st, c, message)
  ELSE IF st.chan[c].paused
  THEN [st EXCEPT !.chan[c].others = <<message>> \o @]
  ELSE handleOther(st, d, registered, c, message)

\* demux: responses drain at once, the rest goes through `others`
demux(st, d, registered, c, message) ==
  IF getMessageType(message) \in {"result", "failure"}
  THEN handleResponse(st, c, message)
  ELSE IF st.chan[c].paused
  THEN [st EXCEPT !.chan[c].others = Append(@, message)]
  ELSE handleOther(st, d, registered, c, message)

\* a collection in which the last announcer of a name becomes its owner
RECURSIVE collectNamesLastWins(_, _, _)
collectNamesLastWins(d, names, child) ==
  IF names = <<>> THEN d
  ELSE LET name == Head(names)
           d1 == IF ~isRequestName(name) THEN d
                 ELSE IF dispatchHas(d, name)
                 THEN [i \in 1..Len(d) |->
                         IF d[i].name = name
                         THEN [name |-> name, handler |-> <<child>>] ELSE d[i]]
                 ELSE Append(d, [name |-> name, handler |-> <<child>>])
       IN  collectNamesLastWins(d1, Tail(names), child)

\* The callback of Promise.all(children.map(child => child.startRequest))
RECURSIVE collectNames(_, _, _)
collectNames(d, names, child) ==
  IF names = <<>> THEN d
  ELSE LET name == Head(names)
           d1 == IF isRequestName(name) /\ ~dispatchHas(d, name)
                 THEN Append(d, [name |-> name, handler |-> <<child>>])
                 ELSE d
       IN  collectNames(d1, Tail(names), child)

RECURSIVE collect(_, _, _)
collect(d, all, ix) ==
  IF ix > Len(all) THEN d
  ELSE collect(IF Has(all[ix], "params")
               THEN collectNames(d, all[ix].params.implements, ix)
               ELSE d,
               all, ix + 1)

RECURSIVE keys(_)
keys(d) == IF d = <<>> THEN <<>> ELSE <<Head(d).name>> \o keys(Tail(d))

implementsList(d) == SelectSeq(keys(d), isRequestName)

\* a broadcast that answers every child, also one that sent a notification
RECURSIVE broadcastToAll(_, _, _, _)
broadcastToAll(st, all, list, ix) ==
  IF ix > Len(all) THEN st
  ELSE broadcastToAll(sendResult(st, ix, all[ix], [implements |-> list]),
                      all, list, ix + 1)

RECURSIVE broadcast(_, _, _, _)
broadcast(st, all, list, ix) ==
  IF ix > Len(all) THEN st
  ELSE broadcast(IF Has(all[ix], "id")
                 THEN sendResult(st, ix, all[ix], [implements |-> list])
                 ELSE st,
                 all, list, ix + 1)

\* --------------------------------------------------------- environment
Methods == {"ping", "echo"}
OptionalIds == {<<>>} \cup {<<i>> : i \in 1..MaxId}
Params == {[data |-> 123]}
Results == {[data |-> 123], [data |-> 7]}
Errors == {[code |-> 1, message |-> "failed", data |-> "detail"],
           [code |-> 2, message |-> "failed"]}
ImplementsChoices ==
  { << <<"request", "ping">> >>,
    << <<"notification", "ping">>, <<"request", "echo">>, <<"request", "ping">> >> }

Announcements ==
  { stringify([jsonrpc |-> <<"2.0">>, id |-> i, method |-> <<"jipe.start">>,
               params |-> p]) :
      i \in OptionalIds,
      p \in {<<>>} \cup {<<[implements |-> l]>> : l \in ImplementsChoices} }

\* ping is sent with params, echo without
Requests ==
  { stringify([jsonrpc |-> <<"2.0">>, id |-> i, method |-> <<"ping">>,
               params |-> <<q>>]) : i \in OptionalIds, q \in Params }
  \cup { stringify([jsonrpc |-> <<"2.0">>, id |-> i, method |-> <<"echo">>,
                    params |-> <<>>]) : i \in OptionalIds }

Malformed == { [id |-> 1, method |-> "ping"] }

\* a jipe.start Request from a peer whose first one was heard already, or
\* from the stdin peer
LateAnnouncements ==
  { [jsonrpc |-> "2.0", id |-> 1, method |-> "jipe.start",
     params |-> [implements |-> << <<"request", "echo">> >>]] }

Responses ==
  { [jsonrpc |-> "2.0", id |-> i, result |-> r] : i \in 1..MaxId, r \in Results }
  \cup { [jsonrpc |-> "2.0", id |-> i, error |-> e] : i \in 1..MaxId, e \in Errors }

\* a response to a call that is not pending: one Result and one Failure per id
StrayResponses ==
  { [jsonrpc |-> "2.0", id |-> i, result |-> [data |-> 123]] : i \in 1..MaxId }
  \cup { [jsonrpc |-> "2.0", id |-> i, error |-> [code |-> 2, message |-> "failed"]] :
            i \in 1..MaxId }

\* ---------------------------------------------------------------- steps
Settled == [settled |-> TRUE]

Init ==
  /\ chan = [c \in Channels |->
               [others |-> <<>>, paused |-> FALSE, awaiting |-> {},
                processing |-> {}, next_id |-> 1]]
  /\ startRequest = [c \in Children |-> <<>>]
  /\ dispatch = <<>>
  /\ listening = FALSE
  /\ pendingThen = <<>>
  /\ crashed = FALSE
  /\ requestsLeft = MaxRequests
  /\ responsesLeft = MaxResponses
  /\ announced = {}
  /\ event = [op |-> "init", channel |-> lhsChannel, message |-> <<>>,
              heard |-> {}, order |-> <<>>, topics |-> <<>>]
  /\ written = <<>>
  /\ open = [c \in Channels |-> <<>>]
  /\ arrival = <<>>
  /\ running = <<>>

Start == [chan |-> chan, startRequest |-> startRequest, arrival |-> arrival,
          pendingThen |-> pendingThen, open |-> open, written |-> <<>>,
          crashed |-> FALSE, heard |-> {}, order |-> <<>>, running |-> running,
          topics |-> <<>>, dispatch |-> dispatch]

\* The state a callback leaves behind.  An exception that reaches the event
\* loop ends the process: nothing of its state is left.
Exited ==
  [chan |-> [c \in Channels |->
               [others |-> <<>>, paused |-> FALSE, awaiting |-> {},
                processing |-> {}, next_id |-> 1]],
   startRequest |-> [c \in Children |-> <<>>], arrival |-> <<>>,
   pendingThen |-> <<>>, open |-> [c \in Channels |-> <<>>], written |-> <<>>,
   crashed |-> TRUE, heard |-> {}, order |-> <<>>, running |-> <<>>,
   topics |-> <<>>, dispatch |-> <<>>]

Commit(st, op, c, message) ==
  LET end == IF st.crashed THEN Exited ELSE st
  IN  /\ chan' = end.chan
      /\ startRequest' = end.startRequest
      /\ arrival' = end.arrival
      /\ pendingThen' = end.pendingThen
      /\ open' = end.open
      /\ written' = end.written
      /\ crashed' = end.crashed
      /\ running' = end.running
      /\ dispatch' = end.dispatch
      /\ event' = [op |-> op, channel |-> c, message |-> message,
                   heard |-> end.heard, order |-> end.order,
                   topics |-> end.topics]

Flowing(c) == ~chan[c].paused /\ chan[c].others # <<>>

AllAnnounced == \A c \in Children : startRequest[c] # <<>>

\* a loop that takes the next inbound line before a pending `then` has run
ThenAfterNextLine ==
  \/ \E c \in Channels : Flowing(c)
  \/ AllAnnounced /\ ~listening

\* work that runs before the event loop takes the next inbound line
MicrotaskPending ==
  \/ pendingThen # <<>>
  \/ \E c \in Channels : Flowing(c)
  \/ AllAnnounced /\ ~listening

\* a line of peer c reaches the Channel
Receive(c, message) ==
  /\ ~crashed
  /\ ~MicrotaskPending
  /\ Commit(demux(Start, dispatch, listening, c, message),
            IF getMessageType(message) \notin {"result", "failure"} /\ chan[c].paused
            THEN "buffered" ELSE getMessageType(message),
            c, <<message>>)
  /\ listening' = IF crashed' THEN FALSE ELSE listening

PeerAnnounces(c) ==
  /\ c \in Children \ announced
  /\ \E message \in Announcements : Receive(c, message)
  /\ announced' = announced \cup {c}
  /\ UNCHANGED <<requestsLeft, responsesLeft>>

PeerRequests(c) ==
  /\ requestsLeft > 0
  /\ \E message \in Requests \cup Malformed
                     \cup (IF c \in announced \cup {lhsChannel}
                           THEN LateAnnouncements ELSE {}) :
       Receive(c, message)
  /\ requestsLeft' = requestsLeft - 1
  /\ UNCHANGED <<responsesLeft, announced>>

PeerResponds(c) ==
  /\ responsesLeft > 0
  /\ \E message \in Responses :
       /\ \/ awaitingGet(chan[c].awaiting, message.id) # {}
          \/ message \in StrayResponses
       /\ Receive(c, message)
  /\ responsesLeft' = responsesLeft - 1
  /\ UNCHANGED <<requestsLeft, announced>>

\* a line that JSON.parse rejects: split2 emits 'error', nobody listens
PeerWritesGarbage(c) ==
  /\ ~crashed
  /\ ~MicrotaskPending
  /\ requestsLeft > 0
  /\ requestsLeft' = requestsLeft - 1
  /\ Commit([Start EXCEPT !.crashed = TRUE], "garbage", c, <<>>)
  /\ listening' = FALSE
  /\ UNCHANGED <<responsesLeft, announced>>

\* the stream `others` of c flows again: its next chunk reaches handler
Flow(c) ==
  /\ ~crashed
  /\ Flowing(c)
  /\ LET message == Head(chan[c].others)
         st == [Start EXCEPT !.chan[c].others = Tail(@)]
     IN  Commit(handleOther(st, dispatch, listening, c, message),
                getMessageType(message), c, <<message>>)
  /\ UNCHANGED <<listening, requestsLeft, responsesLeft, announced>>

\* sendMessage(request).then(sent => awaiting.set(request.id, ...))
Then ==
  /\ ~crashed
  /\ pendingThen # <<>>
  /\ LET p == Head(pendingThen)
         st == [Start EXCEPT !.pendingThen = Tail(@),
                             !.chan[p.channel].awaiting = awaitingSet(@, p.rcb)]
     IN  Commit(st, "then", p.channel, <<>>)
  /\ UNCHANGED <<listening, requestsLeft, responsesLeft, announced>>

\* Promise.all(...).then(all => ...): the end of the startup barrier.  `all`
\* is the only reader of the promises' values: once the callback has run the
\* values are dead, and a promise keeps only the fact that it is settled.
Barrier ==
  /\ ~crashed
  /\ AllAnnounced
  /\ ~listening
  /\ LET all == [ix \in 1..NChildren |-> startRequest[ix][1]]
         d == collect(dispatch, all, 1)
         list == implementsList(d)
         s0 == [Start EXCEPT !.startRequest = [c \in Children |-> <<Settled>>],
                             !.order = arrival, !.arrival = <<>>,
                             !.dispatch = d]
         s1 == broadcast(s0, all, list, 1)
         s2 == sendNotification(s1, lhsChannel, "jipe.start", <<[implements |-> list]>>)
     IN  /\ listening' = TRUE
         /\ Commit(s2, "barrier", lhsChannel, all)
  /\ UNCHANGED <<requestsLeft, responsesLeft, announced>>

Next ==
  \/ \E c \in Channels : PeerAnnounces(c)
  \/ \E c \in Channels : PeerRequests(c)
  \/ \E c \in Channels : PeerResponds(c)
  \/ \E c \in Channels : PeerWritesGarbage(c)
  \/ \E c \in Channels : Flow(c)
  \/ Then
  \/ Barrier

Spec == Init /\ [][Next]_vars

\* ---------------------------------------------------------------- claims
\* The step just taken handed a Result or Failure of channel T to handler,
\* and rcb is the PendingCall registered under its identifier.
Answers(T, rcb) ==
  /\ event'.op \in {"result", "failure"}
  /\ event'.channel = T
  /\ rcb \in chan[T].awaiting
  /\ IdOf(event'.message[1]) = rcb.request.id

\* The step just taken delivered a Request to the forwarder.
Forwarded == event.op = "request" /\ "forwarder" \in event.heard

Owner(method) == dispatchGet(dispatch, <<"request", method>>)

ResultTo(c, id, result) ==
  [channel |-> c, message |-> [jsonrpc |-> "2.0", id |-> id, result |-> result]]

FailureTo(c, id, error) ==
  [channel |-> c, message |-> [jsonrpc |-> "2.0", id |-> id, error |-> error]]

\* C1: when the owner B answers a forwarded call with a Result, the router
\* writes exactly one message, to the caller A: a Result whose identifier is
\* the one on A's open Request and whose payload is the one B returned.
C1_RoundTrip ==
  [][\A T \in Channels : \A rcb \in chan[T].awaiting :
       (Answers(T, rcb) /\ event'.op = "result") =>
         LET A == rcb.callback.channel
         IN  /\ Len(open[A]) = 1
             /\ rcb.callback.msg = open[A][1]
             /\ written' = <<ResultTo(A, open[A][1].id, event'.message[1].result)>>]_vars

\* C1 witness: B's Result [data |-> 7] for the call minted as k came back to
\* another channel under an identifier different from k.
C1_Witness ==
  /\ event.op = "result"
  /\ Len(written) = 1
  /\ written[1].channel # event.channel
  /\ written[1].message.id # event.message[1].id
  /\ written[1].message.result = [data |-> 7]

\* The step just taken ran the forwarder, which placed a call
\* (sendRequest) on the owner's channel.
PlacesCall ==
  /\ event'.op = "request"
  /\ "forwarder" \in event'.heard
  /\ Len(pendingThen') = Len(pendingThen) + 1

\* C2 as stated: the forwarded Request is minted by the owner's allocator,
\* and no message written to the channel C of a caller other than the owner
\* because of the call, neither when the call is placed nor when it is
\* answered, carries the identifier minted on the owner's channel T.
C2_MintedIdNeverOnCallerChannel ==
  [][/\ PlacesCall =>
          LET new == pendingThen'[Len(pendingThen')]
          IN  /\ new.rcb.request.id = chan[new.channel].next_id
              /\ \A i \in 1..Len(written') :
                   (written'[i].channel = event'.channel /\ event'.channel # new.channel)
                     => IdOf(written'[i].message) # new.rcb.request.id
     /\ \A T \in Channels : \A rcb \in chan[T].awaiting :
          (Answers(T, rcb) /\ rcb.callback.channel # T) =>
            \A i \in 1..Len(written') :
              written'[i].channel = rcb.callback.channel =>
                IdOf(written'[i].message) # rcb.request.id]_vars

\* C2 amended: the forwarded Request is the one message the step writes, it
\* goes to the owner's channel T under the next value of T's counter, which
\* the step advances by one, whatever the caller's identifier is; and every
\* message written to the caller's channel C when the call is answered
\* carries the caller's identifier.  (So the identifier minted on T reaches
\* another channel C only when the caller's own identifier has the same
\* value.)
C2_MintedByOwnerAllocator ==
  [][/\ PlacesCall =>
          LET new == pendingThen'[Len(pendingThen')]
              T == new.channel
          IN  /\ <<T>> = dispatchGet(dispatch, <<"request", event'.message[1].method>>)
              /\ new.rcb.request.id = chan[T].next_id
              /\ chan'[T].next_id = chan[T].next_id + 1
              /\ \A X \in Channels \ {T} : chan'[X].next_id = chan[X].next_id
              /\ written' = <<[channel |-> T, message |-> new.rcb.request]>>
     /\ \A T \in Channels : \A rcb \in chan[T].awaiting :
          Answers(T, rcb) =>
            \A i \in 1..Len(written') :
              /\ written'[i].channel = rcb.callback.channel
              /\ IdOf(written'[i].message) = rcb.callback.msg.id]_vars

\* C2 witness: a call was placed on another channel than the caller's, under
\* an identifier different from the caller's.
C2_Witness ==
  /\ Forwarded
  /\ Has(event.message[1], "id")
  /\ Len(written) = 1
  /\ written[1].channel # event.channel
  /\ Has(written[1].message, "id")
  /\ written[1].message.id # event.message[1].id

\* C3: a step in which a Request reaches the forwarder, or in which the
\* delivery of a Request writes anything (a forwarded Request or a
\* method-not-found Failure), starts in a state where the jipe.start
\* announcement of every child has been observed.
C3_NoForwardingBeforeBarrier ==
  [][(event'.op = "request" /\ (written' # <<>> \/ "forwarder" \in event'.heard))
       => AllAnnounced]_vars

\* C3 witness: a ping reached the router while an announcement was still
\* missing, and nothing was written.
C3_Witness ==
  /\ ~AllAnnounced
  /\ event.op = "request"
  /\ event.message[1].method = "ping"
  /\ Has(event.message[1], "id")
  /\ written = <<>>

\* C4 as stated: no Request is dropped, whenever it arrives: a Request that
\* handler publishes is heard by a listener (the forwarder, or the listener
\* for the peer's announcement).
C4_QueuedNotDropped == event.op = "request" => event.heard # {}

\* C5: on every channel at most one delivered reply-expecting Request is
\* unanswered; a line that arrives on a channel with an open Request is
\* appended to the buffer of that channel and not handed to handler.
C5_SingleInFlight ==
  [][\A c \in Channels :
       /\ Len(open[c]) <= 1
       /\ Len(open'[c]) <= 1
       /\ (/\ open[c] # <<>>
           /\ event'.channel = c
           /\ event'.op \in {"request", "malformed", "buffered"})
          => /\ event'.op = "buffered"
             /\ chan'[c].others = Append(chan[c].others, event'.message[1])
             /\ open'[c] = open[c]]_vars

\* C5 witness: a reply-expecting Request was buffered behind an open one.
C5_Witness ==
  /\ event.op = "buffered"
  /\ open[event.channel] # <<>>
  /\ getMessageType(event.message[1]) = "request"
  /\ Has(event.message[1], "id")

\* C6: a Result (Failure) bearing identifier k removes exactly the
\* PendingCall registered under k on that channel, leaves every other
\* PendingCall of every channel registered, and invokes exactly the success
\* (failure) continuation of that PendingCall: the one message written is
\* that continuation's reply to its caller.
C6_Correlation ==
  [][\A T \in Channels : \A rcb \in chan[T].awaiting :
       Answers(T, rcb) =>
         /\ chan'[T].awaiting = chan[T].awaiting \ {rcb}
         /\ \A X \in Channels \ {T} : chan'[X].awaiting = chan[X].awaiting
         /\ written' =
              << IF event'.op = "result"
                 THEN ResultTo(rcb.callback.channel, rcb.callback.msg.id,
                               event'.message[1].result)
                 ELSE FailureTo(rcb.callback.channel, rcb.callback.msg.id,
                                event'.message[1].error) >>]_vars

\* C6 witness: of two calls pending on one channel the later one was
\* answered first, and the earlier one is still pending.
C6_Witness ==
  /\ event.op \in {"result", "failure"}
  /\ Len(written) = 1
  /\ \E rcb \in chan[event.channel].awaiting : rcb.request.id < event.message[1].id

\* the children whose announcement lists name
Announcers(all, name) ==
  {ix \in 1..Len(all) : Has(all[ix], "params") /\ InSeq(name, all[ix].params.implements)}

\* C7: when the barrier ends, the owner of every request.-prefixed name that
\* was announced is the first child, in spawn order, among its announcers.
C7_FirstInSpawnOrder ==
  event.op = "barrier" =>
    \A m \in Methods :
      LET announcers == Announcers(event.message, <<"request", m>>)
      IN  IF announcers = {}
          THEN Owner(m) = <<>>
          ELSE \E first \in announcers :
                 /\ \A other \in announcers : first <= other
                 /\ Owner(m) = <<first>>

\* C7 witness: both children announced request.ping, the second child's
\* announcement arrived first, and the first child owns the name.
C7_Witness ==
  /\ event.op = "barrier"
  /\ event.order = <<2, 1>>
  /\ Announcers(event.message, <<"request", "ping">>) = {1, 2}
  /\ Owner("ping") = <<1>>

\* C8: a Request that reaches the forwarder for a method without owner is
\* answered, if it has an identifier, by exactly one message: a Failure on
\* the caller's channel with the caller's identifier, code -32601 and the
\* message "Method <method> not found"; without an identifier nothing is
\* written to any channel.
C8_MethodNotFound ==
  (Forwarded /\ Owner(event.message[1].method) = <<>>) =>
    written =
      IF Has(event.message[1], "id")
      THEN <<FailureTo(event.channel, event.message[1].id,
                       [code |-> -32601,
                        message |-> <<"Method", event.message[1].method, "not found">>])>>
      ELSE <<>>

\* C8 witness: a reply-expecting Request for an unannounced method got its
\* Failure.
C8_Witness ==
  /\ Forwarded
  /\ Owner(event.message[1].method) = <<>>
  /\ Has(event.message[1], "id")
  /\ Len(written) = 1

\* C9: when the owner answers a forwarded call with a Failure, the router
\* writes exactly one message, to the caller: a Failure with the identifier
\* of the caller's open Request and the error (code, message, data) of the
\* owner's Failure.
C9_FailureRelayed ==
  [][\A T \in Channels : \A rcb \in chan[T].awaiting :
       (Answers(T, rcb) /\ event'.op = "failure") =>
         LET A == rcb.callback.channel
         IN  /\ Len(open[A]) = 1
             /\ written' = <<FailureTo(A, open[A][1].id, event'.message[1].error)>>
             /\ open'[A] = <<>>]_vars

\* C9 witness: a Failure with data was relayed to another channel.
C9_Witness ==
  /\ event.op = "failure"
  /\ Len(written) = 1
  /\ written[1].channel # event.channel
  /\ Has(written[1].message.error, "data")

\* C10: a reply-expecting Request that reaches the forwarder for an announced
\* method makes the router write exactly one message: a Request, on the
\* channel the dispatch table gives for request.<method>, with the method and
\* the params of the inbound Request.
C10_ForwardedToOwner ==
  (Forwarded /\ Has(event.message[1], "id") /\ Owner(event.message[1].method) # <<>>) =>
    /\ Len(written) = 1
    /\ <<written[1].channel>> = Owner(event.message[1].method)
    /\ getMessageType(written[1].message) = "request"
    /\ Has(written[1].message, "id")
    /\ written[1].message.method = event.message[1].method
    /\ Prop(written[1].message, "params") = Prop(event.message[1], "params")

\* C10 witness: a ping with params went to its owner while echo has another
\* owner.
C10_Witness ==
  /\ Forwarded
  /\ event.message[1].method = "ping"
  /\ Has(event.message[1], "id")
  /\ Has(event.message[1], "params")
  /\ Len(written) = 1
  /\ Owner("echo") # <<>>
  /\ Owner("echo") # Owner("ping")

\* The step just taken handed a Request to the forwarder.
Forwards == event'.op = "request" /\ "forwarder" \in event'.heard

\* sendNotification's message
NotificationTo(c, method, params) ==
  [channel |-> c,
   message |-> stringify([jsonrpc |-> <<"2.0">>, params |-> params, method |-> <<method>>])]

\* C11: a Request without identifier that reaches the forwarder for an
\* announced method makes the router write exactly one message: a Request
\* without identifier on the owner's channel, with the same method and
\* params; the step registers no PendingCall (neither at once nor by a
\* pending `then`) and consumes no identifier on any channel, so no response
\* can later be correlated with it.
C11_NotificationForwarded ==
  [][(/\ Forwards
      /\ ~Has(event'.message[1], "id")
      /\ dispatchGet(dispatch, <<"request", event'.message[1].method>>) # <<>>)
       => LET msg == event'.message[1]
              T == dispatchGet(dispatch, <<"request", msg.method>>)[1]
          IN  /\ written' = <<NotificationTo(T, msg.method, Prop(msg, "params"))>>
              /\ ~Has(written'[1].message, "id")
              /\ pendingThen' = pendingThen
              /\ \A X \in Channels :
                   /\ chan'[X].awaiting = chan[X].awaiting
                   /\ chan'[X].next_id = chan[X].next_id]_vars

\* C11 witness: a ping without identifier, with params, was passed on to
\* another channel.
C11_Witness ==
  /\ Forwarded
  /\ ~Has(event.message[1], "id")
  /\ Has(event.message[1], "params")
  /\ Len(written) = 1
  /\ written[1].channel # event.channel
  /\ written[1].message.method = "ping"

\* the set of the elements of a sequence
Range(s) == {s[i] : i \in 1..Len(s)}

\* the request.-prefixed names in the announcements of `all`
AnnouncedRequestNames(all) ==
  {name \in UNION {Range(all[ix].params.implements) :
                     ix \in {i \in 1..Len(all) : Has(all[i], "params")}} :
     isRequestName(name)}

\* the indices of the messages written to channel c
WrittenTo(w, c) == {i \in 1..Len(w) : w[i].channel = c}

\* C12: the step that ends the barrier starts with every announcement seen
\* and is taken once; it writes to each child whose jipe.start carried an
\* identifier exactly one message, a Result with that identifier whose
\* implements list has no duplicates and holds exactly the request.-prefixed
\* names that some child announced, and nothing to a child whose jipe.start
\* had no identifier.  No other step writes a Result with an implements list,
\* and nothing is written before the barrier.
C12_ImplementsResult ==
  [][/\ event'.op = "barrier" =>
          /\ AllAnnounced /\ ~listening /\ listening'
          /\ \A c \in Children :
               LET all == event'.message
                   to == WrittenTo(written', c)
               IN  IF Has(all[c], "id")
                   THEN /\ Cardinality(to) = 1
                        /\ \A i \in to :
                             LET m == written'[i].message
                             IN  /\ DOMAIN m = {"jsonrpc", "id", "result"}
                                 /\ m.id = all[c].id
                                 /\ DOMAIN m.result = {"implements"}
                                 /\ Range(m.result.implements) = AnnouncedRequestNames(all)
                                 /\ Cardinality(Range(m.result.implements))
                                      = Len(m.result.implements)
                   ELSE to = {}
     /\ event'.op # "barrier" =>
          \A i \in 1..Len(written') :
            Has(written'[i].message, "result") =>
              ~Has(written'[i].message.result, "implements")
     /\ ~listening' => written' = <<>>]_vars

\* C12 witness: both children announced with an identifier, one of them
\* request.ping, request.echo and notification.ping, and each got its Result.
C12_Witness ==
  /\ event.op = "barrier"
  /\ \A c \in Children : Has(event.message[c], "id")
  /\ \E c \in Children :
       /\ Has(event.message[c], "params")
       /\ Len(event.message[c].params.implements) = 3
  /\ \A c \in Children : Cardinality(WrittenTo(written, c)) = 1
  /\ Len(written[1].message.result.implements) = 2

\* every name in the announcements of `all`
AnnouncedNames(all) ==
  UNION {Range(all[ix].params.implements) :
           ix \in {i \in 1..Len(all) : Has(all[i], "params")}}

\* C13 as stated: when the barrier ends, every child that made a jipe.start
\* request (with an identifier) is sent a Result whose implements holds
\* exactly the union of all the implements values the children sent.
C13_UnionOfAllValues ==
  event.op = "barrier" =>
    \A c \in Children :
      Has(event.message[c], "id") =>
        \E i \in WrittenTo(written, c) :
          /\ Has(written[i].message, "result")
          /\ Range(written[i].message.result.implements) = AnnouncedNames(event.message)

\* The step just taken received a Result or Failure of channel T for the
\* pending call rcb.
Arrives(T, rcb) ==
  /\ event'.op \in {"result", "failure", "buffered"}
  /\ event'.channel = T
  /\ getMessageType(event'.message[1]) \in {"result", "failure"}
  /\ rcb \in chan[T].awaiting
  /\ event'.message[1].id = rcb.request.id

\* C14: a Result or Failure that arrives on a channel for a pending call is
\* handed to handler in the step it arrives in, whether or not the stream of
\* the channel's other messages is paused and holds buffered lines: the
\* PendingCall is resolved (removed, its reply written) and the buffer and
\* the hold are as they were.
C14_ResponsesDrain ==
  [][\A T \in Channels : \A rcb \in chan[T].awaiting :
       Arrives(T, rcb) =>
         /\ event'.op = getMessageType(event'.message[1])
         /\ rcb \notin chan'[T].awaiting
         /\ Len(written') = 1
         /\ written'[1].channel = rcb.callback.channel
         /\ (rcb.callback.channel # T =>
               /\ chan'[T].others = chan[T].others
               /\ chan'[T].paused = chan[T].paused)]_vars

\* C14 witness: a Result was handled on a channel that is held and has a
\* Request buffered.
C14_Witness ==
  /\ event.op = "result"
  /\ Len(written) = 1
  /\ written[1].channel # event.channel
  /\ chan[event.channel].paused
  /\ \E i \in 1..Len(chan[event.channel].others) :
       /\ getMessageType(chan[event.channel].others[i]) = "request"
       /\ Has(chan[event.channel].others[i], "id")

Unmatched(T) ==
  /\ event'.op \in {"result", "failure"}
  /\ event'.channel = T
  /\ awaitingGet(chan[T].awaiting, event'.message[1].id) = {}

\* C16: a Result or Failure whose identifier has no PendingCall on its
\* channel makes handler raise a fault (assert.fail throws), and the step
\* invokes no continuation: it writes nothing.
C16_UnmatchedReported ==
  [][\A T \in Channels : Unmatched(T) => (crashed' /\ written' = <<>>)]_vars

\* C16 witness: a Result with identifier 2 that nothing awaited raised the
\* fault.
C16_Witness ==
  /\ crashed
  /\ event.op = "result"
  /\ event.message[1].id = 2

\* C17 as stated: an unmatched response or a malformed message (an object
\* that is no message, or a line that is no JSON) on one channel does not
\* terminate the router.
C17_FaultIsNotFatal ==
  event.op \in {"result", "failure", "malformed", "garbage"} => ~crashed

\* C18 as stated: a malformed record does not stop the channel it arrived
\* on: a line that is no JSON leaves the process running, and after an
\* object that is no message was published as malformed the stream of the
\* channel's inbound messages is not held back.
C18_MalformedDoesNotStop ==
  /\ event.op = "garbage" => ~crashed
  /\ event.op = "malformed" => ~chan[event.channel].paused

\* the indices of the Requests with identifier written to channel c
CallsTo(w, c) ==
  {i \in WrittenTo(w, c) :
     getMessageType(w[i].message) = "request" /\ Has(w[i].message, "id")}

\* C19: on each channel the counter starts at 1; a step gives the Request
\* that sendRequest writes the counter's value and advances the counter by
\* one, and a step that writes no such Request (a notification, a Result, a
\* Failure) leaves the counter as it is; every identifier of a PendingCall,
\* registered or about to be, is below the counter, so a new Request never
\* gets the identifier of a pending one.
C19_IdentifiersInOrder ==
  [][~crashed' =>
       \A c \in Channels :
         LET calls == CallsTo(written', c)
         IN  /\ event.op = "init" => chan[c].next_id = 1
             /\ Cardinality(calls) <= 1
             /\ \A i \in calls : written'[i].message.id = chan[c].next_id
             /\ chan'[c].next_id = chan[c].next_id + Cardinality(calls)
             /\ \A rcb \in chan'[c].awaiting : rcb.request.id < chan'[c].next_id
             /\ \A j \in 1..Len(pendingThen') :
                  pendingThen'[j].channel = c =>
                    pendingThen'[j].rcb.request.id < chan'[c].next_id]_vars

\* C19 witness: two calls are pending on one channel, under 1 and 2, and the
\* counter is at 3.
C19_Witness ==
  \E c \in Channels :
    /\ chan[c].next_id = 3
    /\ {rcb.request.id : rcb \in chan[c].awaiting} = {1, 2}

\* ----------------------------------------------- feature host (Jipe.start)
\* A process that serves Requests through Jipe.start: one Channel over its
\* stdin / stdout, a 'request' listener that calls the feature's method and
\* answers, and the jipe.start call that announces the features.

\* this.channel
hostChannel == lhsChannel

\* the methods of the feature map `imp`, as registered in Jipe.start's dispatch
imp == {"ping"}

\* what `await method.call(this, params)` can come to
Outcomes ==
  {[kind |-> "throws"]}
  \cup {[kind |-> "returns", value |-> v] : v \in {<<>>} \cup {<<r>> : r \in Results}}

\* JSON.stringify of an Error gives {}
hostError ==
  [code |-> 0, message |-> <<"Caught exception thrown in", "argv">>,
   data |-> [exception |-> <<>>]]

\* the catch block of the 'request' listener
catch(st, c, msg) ==
  IF Has(msg, "id")
  THEN sendError(st, c, msg, <<hostError.code>>, <<hostError.message>>,
                 <<hostError.data>>)
  ELSE st

\* the 'request' listener up to its await
requestListener(st, c, msg) ==
  IF msg.method \notin imp
  THEN catch(st, c, msg)
  ELSE [st EXCEPT !.running = Append(@, msg)]

\* a listener that goes on after an undefined result as after any other
afterAwaitAllowsUndefined(st, c, msg, outcome) ==
  IF outcome.kind = "throws"
  THEN catch(st, c, msg)
  ELSE IF outcome.value # <<>>
  THEN sendResult(st, c, msg, outcome.value[1])
  ELSE st

\* the 'request' listener after its await
afterAwait(st, c, msg, outcome) ==
  IF outcome.kind = "throws"
  THEN catch(st, c, msg)
  ELSE IF outcome.value = <<>> /\ Has(msg, "id")
  THEN catch(st, c, msg)
  ELSE IF outcome.value # <<>>
  THEN sendResult(st, c, msg, outcome.value[1])
  ELSE st

\* handler of the host's Channel, for a chunk of `others`
hostHandleOther(st, c, message) ==
  LET type == getMessageType(message)
      events == getEventSequence(type, message)
      s1 == hold(st, c, message)
      listen == InSeq(<<"request">>, events)
      s2 == IF listen THEN requestListener(s1, c, message) ELSE s1
  IN  [s2 EXCEPT !.heard = IF listen THEN {"request"} ELSE {},
                 !.topics = events]

\* handler of the host's Channel, for a chunk of `responses`: the callbacks
\* are those of requestResult's promise
hostHandleResponse(st, c, message) ==
  LET found == awaitingGet(st.chan[c].awaiting, IdOf(message))
  IN  IF found = {}
      THEN [st EXCEPT !.crashed = TRUE]
      ELSE LET rcb == CHOOSE e \in found : TRUE
           IN  [st EXCEPT !.chan[c].awaiting = awaitingDelete(@, rcb.request.id),
                          !.topics = getEventSequence(getMessageType(message),
                                                      rcb.request)]

hostDemux(st, c, message) ==
  IF getMessageType(message) \in {"result", "failure"}
  THEN hostHandleResponse(st, c, message)
  ELSE IF st.chan[c].paused
  THEN [st EXCEPT !.chan[c].others = Append(@, message)]
  ELSE hostHandleOther(st, c, message)

\* Jipe.start has made the Channel, registered the listener and called
\* requestResult(jipe.start, {implements: ...})
HostStarted ==
  sendRequest([Exited EXCEPT !.crashed = FALSE], hostChannel, "jipe.start",
              <<[implements |-> << <<"request", "ping">> >>]>>,
              [promise |-> "start"])

HostInit ==
  /\ chan = HostStarted.chan
  /\ pendingThen = HostStarted.pendingThen
  /\ written = HostStarted.written
  /\ open = HostStarted.open
  /\ running = <<>>
  /\ crashed = FALSE
  /\ startRequest = [c \in Children |-> <<>>]
  /\ arrival = <<>>
  /\ dispatch = <<>>
  /\ listening = FALSE
  /\ announced = {}
  /\ requestsLeft = MaxRequests
  /\ responsesLeft = MaxResponses
  /\ event = [op |-> "start", channel |-> hostChannel, message |-> <<>>,
              heard |-> {}, order |-> <<>>, topics |-> <<>>]

HostReceive(message) ==
  /\ ~crashed
  /\ ~MicrotaskPending
  /\ Commit(hostDemux(Start, hostChannel, message),
            IF getMessageType(message) \notin {"result", "failure"}
               /\ chan[hostChannel].paused
            THEN "buffered" ELSE getMessageType(message),
            hostChannel, <<message>>)
  /\ UNCHANGED <<listening, announced>>

HostPeerRequests ==
  /\ requestsLeft > 0
  /\ \E message \in Requests \cup Malformed : HostReceive(message)
  /\ requestsLeft' = requestsLeft - 1
  /\ UNCHANGED responsesLeft

HostPeerResponds ==
  /\ responsesLeft > 0
  /\ \E message \in Responses :
       /\ \/ awaitingGet(chan[hostChannel].awaiting, message.id) # {}
          \/ message \in StrayResponses
       /\ HostReceive(message)
  /\ responsesLeft' = responsesLeft - 1
  /\ UNCHANGED requestsLeft

HostFlow ==
  /\ ~crashed
  /\ Flowing(hostChannel)
  /\ LET message == Head(chan[hostChannel].others)
         st == [Start EXCEPT !.chan[hostChannel].others = Tail(@)]
     IN  Commit(hostHandleOther(st, hostChannel, message),
                getMessageType(message), hostChannel, <<message>>)
  /\ UNCHANGED <<listening, requestsLeft, responsesLeft, announced>>

\* the awaited handler settles: the listener goes on after its await
HostSettles ==
  /\ ~crashed
  /\ running # <<>>
  /\ \E outcome \in Outcomes :
       LET msg == Head(running)
           st == [Start EXCEPT !.running = Tail(@)]
       IN  Commit(afterAwait(st, hostChannel, msg, outcome),
                  "settle", hostChannel, <<msg, outcome>>)
  /\ UNCHANGED <<listening, requestsLeft, responsesLeft, announced>>

HostNext ==
  \/ HostPeerRequests
  \/ HostPeerResponds
  \/ HostFlow
  \/ HostSettles
  \/ Then

HostSpec == HostInit /\ [][HostNext]_vars

\* C20: in a feature host, a Request with identifier that the listener gets
\* is answered in that step by exactly one Failure with its identifier when
\* its method has no handler; otherwise its handler is awaited and nothing
\* is written, and when the handler throws or returns undefined the step
\* that goes on after the await writes exactly one Failure with the
\* Request's identifier and the Request is no longer awaited.  No other step
\* writes anything, so no Request is answered twice.
C20_HostAnswersOnce ==
  [][LET msg == event'.message[1]
     IN  /\ (event'.op = "request" /\ Has(msg, "id") /\ msg.method \notin imp) =>
              /\ written' = <<FailureTo(hostChannel, msg.id, hostError)>>
              /\ running' = running
         /\ (event'.op = "request" /\ Has(msg, "id") /\ msg.method \in imp) =>
              /\ written' = <<>>
              /\ running' = Append(running, msg)
         /\ (event'.op = "settle" /\ Has(msg, "id")) =>
              /\ running = <<msg>>
              /\ running' = <<>>
              /\ open[hostChannel] = <<msg>>
              /\ open'[hostChannel] = <<>>
              /\ written' =
                   << IF event'.message[2] \in
                           {[kind |-> "throws"], [kind |-> "returns", value |-> <<>>]}
                      THEN FailureTo(hostChannel, msg.id, hostError)
                      ELSE ResultTo(hostChannel, msg.id, event'.message[2].value[1]) >>
         /\ event'.op \notin {"request", "settle"} => written' = <<>>]_vars

\* C20 witness: the handler of the second Request, with identifier 2, threw,
\* and the Failure was written.
C20_Witness ==
  /\ event.op = "settle"
  /\ event.message[2].kind = "throws"
  /\ Len(written) = 1
  /\ Has(written[1].message, "error")
  /\ written[1].message.id = 2
  /\ requestsLeft = 0

\* C21: in a feature host, a step that handles an inbound Request without
\* identifier, or that goes on after the await of its handler, writes no
\* message at all, whatever the handler did.
C21_NothingWrittenForNotification ==
  [][(event'.op \in {"request", "settle"} /\ ~Has(event'.message[1], "id"))
       => written' = <<>>]_vars

\* C22: for every peer, the forwarded Requests of the router that the peer
\* has not answered (registered as awaiting, or written with the registration
\* still to come) are at most one.
C22_OneUnansweredPerPeer ==
  \A T \in Channels :
    Cardinality(chan[T].awaiting)
      + Cardinality({i \in DOMAIN pendingThen : pendingThen[i].channel = T}) <= 1

\* C23: a Result that answers a pending Request for method m is published
\* under result.m, response.m, response and message, in that order.
C23_ResultTopicsInDocumentedOrder ==
  (event.op = "result" /\ ~crashed) =>
    \E m \in Methods :
      event.topics = << <<"result", m>>, <<"response", m>>,
                        <<"response">>, <<"message">> >>

\* C24: a step that leaves the router running changes the dispatch table
\* only if it is the barrier step, which is taken once, before any
\* forwarding; no Request (a later jipe.start included), response or
\* continuation changes it.
C24_DispatchWrittenOnlyAtBarrier ==
  [][~crashed' =>
       /\ dispatch' # dispatch => (event'.op = "barrier" /\ ~listening /\ listening')
       /\ listening => (listening' /\ event'.op # "barrier")]_vars

\* C24 witness: after the barrier a peer sent a jipe.start Request naming
\* request.echo, which no child had announced; the forwarder heard it and
\* the table still has no entry for it.
C24_Witness ==
  /\ listening
  /\ event.op = "request"
  /\ event.message[1] \in LateAnnouncements
  /\ "forwarder" \in event.heard
  /\ dispatch # <<>>
  /\ ~dispatchHas(dispatch, <<"request", "echo">>)

\* a message that names the method jipe.start
IsStartMessage(m) == Has(m, "method") /\ m.method = "jipe.start"

\* C25: the barrier step writes to the stdin peer exactly one message, after
\* the Results to the children: a jipe.start message without identifier
\* whose only parameter is the implements list that every Result of that
\* step carries; the step registers no PendingCall and takes no identifier
\* on that channel.  No other step writes a jipe.start message to the stdin
\* peer, and the barrier step is taken once.
C25_StdinPeerNotifiedOnce ==
  [][/\ event'.op = "barrier" =>
          LET to == WrittenTo(written', lhsChannel)
              last == written'[Len(written')]
          IN  /\ ~listening /\ listening'
              /\ to = {Len(written')}
              /\ DOMAIN last.message = {"jsonrpc", "method", "params"}
              /\ last.message.method = "jipe.start"
              /\ DOMAIN last.message.params = {"implements"}
              /\ last.message.params.implements = implementsList(dispatch')
              /\ \A i \in 1..(Len(written') - 1) :
                   written'[i].message.result.implements
                     = last.message.params.implements
              /\ pendingThen' = pendingThen
              /\ chan'[lhsChannel].awaiting = chan[lhsChannel].awaiting
              /\ chan'[lhsChannel].next_id = chan[lhsChannel].next_id
     /\ event'.op # "barrier" =>
          \A i \in WrittenTo(written', lhsChannel) :
            ~IsStartMessage(written'[i].message)]_vars

\* C25 witness: the barrier ended with both children answered and the stdin
\* peer told the two names that were announced.
C25_Witness ==
  /\ event.op = "barrier"
  /\ Len(written) = 3
  /\ written[3] = NotificationTo(lhsChannel, "jipe.start",
                     <<[implements |-> << <<"request", "echo">>,
                                          <<"request", "ping">> >>]>>)
  /\ written[1].message.result.implements = written[3].message.params.implements
  /\ chan[lhsChannel].awaiting = {}
  /\ pendingThen = <<>>

\* C26: a step that delivers a Request without identifier to the handler
\* leaves the channel's stream of Requests flowing, so that later Requests
\* are delivered.
C26_NotificationDoesNotHold ==
  (event.op = "request" /\ ~Has(event.message[1], "id") /\ ~crashed)
    => ~chan[event.channel].paused

\* ------------------------------------------------- sendResult, sendError
\* A Channel on its own, with no listener: the handler holds at most one
\* line, lines that came while it held one are buffered in `others`, and the
\* owner of the Channel calls sendResult or sendError with a Request of its
\* choice.
MaxBuffered == 2

BufferedLines ==
  { [jsonrpc |-> "2.0", id |-> 2, method |-> "ping", params |-> [data |-> 123]],
    [jsonrpc |-> "2.0", method |-> "echo"] }

RECURSIVE Buffers(_)
Buffers(n) ==
  IF n = 0 THEN {<<>>}
  ELSE Buffers(n - 1)
       \cup {Append(b, l) : b \in {x \in Buffers(n - 1) : Len(x) = n - 1},
                            l \in BufferedLines}

\* the Channel after the handler took the line `held` and `buffered` came
Holding(held, buffered) ==
  LET s0 == [Exited EXCEPT !.crashed = FALSE]
      s1 == hold(s0, lhsChannel, held)
  IN  [s1 EXCEPT !.chan[lhsChannel].others = buffered]

ReplyInit ==
  /\ \E st \in {[Exited EXCEPT !.crashed = FALSE]}
               \cup {Holding(held, buffered) :
                       held \in Requests, buffered \in Buffers(MaxBuffered)} :
       /\ chan = st.chan
       /\ open = st.open
  /\ startRequest = [c \in Children |-> <<>>]
  /\ dispatch = <<>>
  /\ listening = FALSE
  /\ pendingThen = <<>>
  /\ crashed = FALSE
  /\ requestsLeft = MaxRequests
  /\ responsesLeft = MaxResponses
  /\ announced = {}
  /\ event = [op |-> "new", channel |-> lhsChannel, message |-> <<>>,
              heard |-> {}, order |-> <<>>, topics |-> <<>>]
  /\ written = <<>>
  /\ arrival = <<>>
  /\ running = <<>>

CallsSendResult ==
  /\ \E request \in Requests, result \in Results :
       Commit(sendResult(Start, lhsChannel, request, result),
              "sendResult", lhsChannel, <<request>>)
  /\ UNCHANGED <<listening, requestsLeft, responsesLeft, announced>>

CallsSendError ==
  /\ \E request \in Requests, error \in Errors :
       Commit(sendError(Start, lhsChannel, request, <<error.code>>,
                        <<error.message>>, Prop(error, "data")),
              "sendError", lhsChannel, <<request>>)
  /\ UNCHANGED <<listening, requestsLeft, responsesLeft, announced>>

ReplyNext ==
  \/ CallsSendResult
  \/ CallsSendError
  \/ Flow(lhsChannel)

ReplySpec == ReplyInit /\ [][ReplyNext]_vars

\* C27: a call of sendResult or sendError for a Request takes exactly that
\* Request's identifier out of the set of open identifiers; the stream of
\* buffered lines is resumed by the call if and only if the set is empty
\* after that, and the call itself delivers or drops no buffered line.  So
\* a reply for an identifier that is not open, made while another one is
\* open, leaves the stream paused.
C27_ReleaseWhenEmpty ==
  [][event'.op \in {"sendResult", "sendError"} =>
       LET before == chan[lhsChannel]
           after == chan'[lhsChannel]
           id == IdOf(event'.message[1])
       IN  /\ after.processing = before.processing \ {id}
           /\ after.paused = (before.paused /\ after.processing # {})
           /\ after.others = before.others
           /\ (id \notin before.processing /\ before.processing # {})
                => after.paused]_vars

\* C27 witness: identifier 1 was open with two lines buffered, and a Result
\* for identifier 2 was sent: the set still holds 1 and the stream is paused.
C27_Witness ==
  /\ event.op = "sendResult"
  /\ Has(event.message[1], "id")
  /\ event.message[1].id = 2
  /\ chan[lhsChannel].processing = {1}
  /\ chan[lhsChannel].paused
  /\ Len(chan[lhsChannel].others) = 2
  /\ Len(written) = 1

\* ------------------------------------------------------- getMessageType
\* The lines JSON.parse can give the Channel, by the properties they have.
Lines ==
  { stringify([jsonrpc |-> v, id |-> i, method |-> m, error |-> e, result |-> r]) :
      v \in {<<>>, <<"2.0">>},
      i \in OptionalIds,
      m \in {<<>>} \cup {<<x>> : x \in Methods},
      e \in {<<>>, <<[code |-> 2, message |-> "failed"]>>},
      r \in {<<>>, <<[data |-> 123]>>} }

\* a line has come and is not yet parsed
ClassifyInit ==
  /\ \E message \in Lines :
       event = [op |-> "line", channel |-> lhsChannel, message |-> <<message>>]
  /\ chan = Exited.chan
  /\ open = Exited.open
  /\ startRequest = [c \in Children |-> <<>>]
  /\ dispatch = <<>>
  /\ listening = FALSE
  /\ pendingThen = <<>>
  /\ crashed = FALSE
  /\ requestsLeft = MaxRequests
  /\ responsesLeft = MaxResponses
  /\ announced = {}
  /\ written = <<>>
  /\ arrival = <<>>
  /\ running = <<>>

\* dissect gives [type, parsed]; the handler computes `respond` for the
\* events it emits
Dissect ==
  /\ event.op = "line"
  /\ LET message == event.message[1]
     IN  event' = [op |-> "dissect", channel |-> event.channel,
                   message |-> event.message,
                   type |-> getMessageType(message),
                   respond |-> Has(message, "id")]
  /\ UNCHANGED <<chan, startRequest, dispatch, listening, pendingThen, crashed,
                 requestsLeft, responsesLeft, announced, written, open,
                 arrival, running>>

ClassifyNext == Dissect

ClassifySpec == ClassifyInit /\ [][ClassifyNext]_vars

\* C28: a line without version marker is malformed; with one, a line with a
\* method is a Request that expects a reply exactly when it has an id; a
\* line without method is a Failure when it has id and error, a Result when
\* it has id and result, and malformed otherwise, in particular when it has
\* error or result but no id.
C28_ClassifiedByDataModel ==
  event.op = "dissect" =>
    LET message == event.message[1]
    IN  /\ event.type =
             IF ~Has(message, "jsonrpc") THEN "malformed"
             ELSE IF Has(message, "method") THEN "request"
             ELSE IF Has(message, "id") /\ Has(message, "error") THEN "failure"
             ELSE IF Has(message, "id") /\ Has(message, "result") THEN "result"
             ELSE "malformed"
        /\ event.type = "request" => (event.respond <=> Has(message, "id"))

\* C29: a step in which the handler took an inbound line and classified it,
\* as request, result, failure or malformed, published it under `message`.
C29_PublishedUnderMessage ==
  (event.op \in {"request", "result", "failure", "malformed"} /\ ~crashed)
    => InSeq(<<"message">>, event.topics)

\* ---------------------------------------------------------- command line
MaxArgs == 4

sep == "--"

\* what can follow the program and the script in process.argv
Arguments == {sep, "a", "b"}

RECURSIVE ArgumentLists(_)
ArgumentLists(n) ==
  IF n = 0 THEN {<<>>}
  ELSE ArgumentLists(n - 1)
       \cup {Append(l, a) : l \in {x \in ArgumentLists(n - 1) : Len(x) = n - 1},
                            a \in Arguments}

\* the loop of stackBy with by = (x => x === sep): `previous` is <<>> for
\* null, `out` the groups yielded so far
RECURSIVE stackByLoop(_, _, _, _)
stackByLoop(iterable, previous, group, out) ==
  IF iterable = <<>> THEN Append(out, group)
  ELSE LET element == Head(iterable)
           key == (element = sep)
       IN  IF previous # <<>> /\ key # previous[1]
           THEN stackByLoop(Tail(iterable), <<key>>, <<element>>, Append(out, group))
           ELSE stackByLoop(Tail(iterable), <<key>>, Append(group, element), out)

stackBy(iterable) == stackByLoop(iterable, <<>>, <<>>, <<>>)

\* stacks.filter(x => x.length !== 1 || x[0] !== sep)
stacks(argv) ==
  SelectSeq(stackBy(argv), LAMBDA x : Len(x) # 1 \/ x[1] # sep)

\* stacks.slice(1)
childArgs(argv) ==
  IF stacks(argv) = <<>> THEN <<>> ELSE Tail(stacks(argv))

\* main has parsed the options; process.argv is about to go to Mediator.start
ArgvInit ==
  /\ \E rest \in ArgumentLists(MaxArgs) :
       event = [op |-> "argv", channel |-> lhsChannel,
                message |-> <<"node", "jipe.js">> \o rest]
  /\ chan = Exited.chan
  /\ open = Exited.open
  /\ startRequest = [c \in Children |-> <<>>]
  /\ dispatch = <<>>
  /\ listening = FALSE
  /\ pendingThen = <<>>
  /\ crashed = FALSE
  /\ requestsLeft = MaxRequests
  /\ responsesLeft = MaxResponses
  /\ announced = {}
  /\ written = <<>>
  /\ arrival = <<>>
  /\ running = <<>>

\* childArgs.map(call => spawn(exec, args)): children[ix] is the call of
\* the ix-th child, its program first
Spawns ==
  /\ event.op = "argv"
  /\ event' = [op |-> "spawn", channel |-> event.channel,
               message |-> event.message,
               children |-> childArgs(event.message)]
  /\ UNCHANGED <<chan, startRequest, dispatch, listening, pendingThen, crashed,
                 requestsLeft, responsesLeft, announced, written, open,
                 arrival, running>>

ArgvNext == Spawns

ArgvSpec == ArgvInit /\ [][ArgvNext]_vars

\* C30: the calls of the children are, in order, the maximal runs of
\* arguments other than `--` that follow the first such run of argv, one
\* child per run; so no child has `--` as its program or as an argument,
\* whatever the number of `--` tokens between two runs.
C30_ChildrenAreTheRuns ==
  event.op = "spawn" =>
    LET argv == event.message
        children == event.children
        runs == {r \in (1..Len(argv)) \X (1..Len(argv)) :
                   /\ r[1] <= r[2]
                   /\ \A k \in r[1]..r[2] : argv[k] # sep
                   /\ r[1] = 1 \/ argv[r[1] - 1] = sep
                   /\ r[2] = Len(argv) \/ argv[r[2] + 1] = sep}
    IN  /\ Len(children) = Cardinality(runs) - 1
        /\ \A n \in 1..Len(children) :
             /\ \E r \in runs :
                  /\ Cardinality({q \in runs : q[1] < r[1]}) = n
                  /\ children[n] = SubSeq(argv, r[1], r[2])
             /\ \A k \in 1..Len(children[n]) : children[n][k] # sep

\* -------------------------------------------------------------- startup
\* child c writes its jipe.start Request, with identifier and params
AnnouncesForReply(c) ==
  /\ c \in Children \ announced
  /\ \E message \in {a \in Announcements : Has(a, "id") /\ Has(a, "params")} :
       Receive(c, message)
  /\ announced' = announced \cup {c}
  /\ UNCHANGED <<requestsLeft, responsesLeft>>

\* a child calls ping while the router waits for the announcements
EarlyRequests(c) ==
  /\ ~listening
  /\ c \in Children
  /\ requestsLeft > 0
  /\ \E message \in {r \in Requests : r.method = "ping"} : Receive(c, message)
  /\ requestsLeft' = requestsLeft - 1
  /\ UNCHANGED <<responsesLeft, announced>>

\* the startup of the router: what the peers write until the barrier, and
\* what the router does with it
StartupNext ==
  \/ \E c \in Channels : AnnouncesForReply(c)
  \/ \E c \in Channels : EarlyRequests(c)
  \/ \E c \in Channels : Flow(c)
  \/ Then
  \/ Barrier

StartupSpec == Init /\ [][StartupNext]_vars

\* C31: when every child has written its jipe.start Request, with
\* identifier and params, and the router has run every callback that was
\* ready, the barrier step has been taken.  (The children wait for their
\* Results: a state in which the router has nothing left to run and the
\* barrier is not taken is one in which it is never taken.)
C31_BarrierCompletes ==
  (announced = Children /\ ~crashed /\ ~MicrotaskPending) => listening

\* --------------------------------------------------------- steady state
\* a peer writes a Request once the router forwards
LateRequests(c) ==
  /\ listening
  /\ PeerRequests(c)

\* an owner answers a call that is pending on its channel
OwnerAnswers(c) ==
  /\ responsesLeft > 0
  /\ \E message \in Responses :
       /\ awaitingGet(chan[c].awaiting, message.id) # {}
       /\ Receive(c, message)
  /\ responsesLeft' = responsesLeft - 1
  /\ UNCHANGED <<requestsLeft, announced>>

\* the router with peers that write nothing but their announcement, Requests
\* after the barrier, and one response to each forwarded Request
SteadyNext ==
  \/ \E c \in Channels : PeerAnnounces(c)
  \/ \E c \in Channels : LateRequests(c)
  \/ \E c \in Channels : OwnerAnswers(c)
  \/ \E c \in Channels : Flow(c)
  \/ Then
  \/ Barrier

SteadySpec == Init /\ [][SteadyNext]_vars

\* C32: after the barrier, when every forwarded Request has got its response
\* and the router has run every callback that was ready, no Request with
\* identifier that a peer wrote is left undelivered or unanswered.  (A state
\* in which the router has nothing left to run is one that lasts until a
\* peer writes again.)
C32_EveryRequestAnswered ==
  (/\ listening
   /\ ~crashed
   /\ ~MicrotaskPending
   /\ \A T \in Channels : chan[T].awaiting = {})
    => \A c \in Channels :
         /\ open[c] = <<>>
         /\ \A i \in 1..Len(chan[c].others) :
              ~(getMessageType(chan[c].others[i]) = "request"
                /\ Has(chan[c].others[i], "id"))

\* the identifiers of the calls placed on channel T that are registered or
\* wait for their `then`
PendingIds(awaiting, pending, T) ==
  {e.request.id : e \in awaiting}
  \cup {pending[i].rcb.request.id :
          i \in {j \in DOMAIN pending : pending[j].channel = T}}

\* C33: on every channel the pending identifiers are below the channel's
\* counter and a step adds at most the counter's value to them, so that an
\* identifier is never pending twice.  A response that matches a PendingCall
\* takes its identifier out of them and writes exactly one reply; a response
\* whose identifier is not registered, as a second response with the same
\* identifier is, invokes no continuation: it writes nothing and raises the
\* fault.
C33_ResolvedAtMostOnce ==
  [][\A T \in Channels :
       LET before == PendingIds(chan[T].awaiting, pendingThen, T)
           after == PendingIds(chan'[T].awaiting, pendingThen', T)
       IN  /\ \A k \in before : k < chan[T].next_id
           /\ ~crashed' => after \subseteq before \cup {chan[T].next_id}
           /\ \A rcb \in chan[T].awaiting :
                Answers(T, rcb) =>
                  /\ rcb.request.id \notin after
                  /\ after = before \ {rcb.request.id}
                  /\ Len(written') = 1
           /\ Unmatched(T) => (crashed' /\ written' = <<>>)]_vars

\* C33 witness: one Request was forwarded under identifier 1, its response
\* came and was resolved, and then a Result bearing identifier 1 came again:
\* no PendingCall was registered for it, it raised the fault and nothing
\* was written.
C33_Witness ==
  /\ crashed
  /\ event.op = "result"
  /\ event.message[1].id = 1
  /\ requestsLeft = MaxRequests - 1
  /\ responsesLeft = MaxResponses - 2
  /\ written = <<>>

\* C34: the lines of a channel that are no responses reach handler in the
\* order they came in.  A line that comes while the stream is paused goes
\* to the end of the channel's buffer; a line that comes while it flows is
\* handled at once, and then no earlier line waits in the buffer; the
\* resumed stream hands over the oldest buffered line and keeps the rest in
\* order; no other step, a response on that channel included, touches the
\* buffer.
C34_DeliveredInOrder ==
  [][~crashed' =>
       \A c \in Channels :
         LET others == chan[c].others
             arrived == requestsLeft' # requestsLeft \/ announced' # announced
         IN  IF event'.channel = c /\ event'.op = "buffered"
             THEN /\ chan[c].paused
                  /\ chan'[c].others = Append(others, event'.message[1])
             ELSE IF event'.channel = c /\ event'.op \in {"request", "malformed"}
             THEN IF arrived
                  THEN others = <<>> /\ chan'[c].others = <<>>
                  ELSE /\ others # <<>>
                       /\ event'.message[1] = Head(others)
                       /\ chan'[c].others = Tail(others)
             ELSE chan'[c].others = others]_vars

\* C34 witness: two Requests were buffered on a channel; the resumed stream
\* has handed over the first one, a Request with identifier, and the second
\* one still waits.
C34_Witness ==
  /\ event.op = "request"
  /\ Has(event.message[1], "id")
  /\ event.message[1].method \in Methods
  /\ Len(chan[event.channel].others) = 1
  /\ requestsLeft = 0

\* C35: a Request with identifier that a peer writes for a method it owns
\* itself is forwarded to that peer, on the channel it came on.  While the
\* forwarded call is pending the peer's Request is the open one of that
\* channel and the channel is held; the peer's response to the forwarded
\* call is handled in the step it arrives in all the same, and that step
\* writes the one reply, on that channel, under the identifier of the peer's
\* own Request, and ends the hold.
C35_SelfCallAnswered ==
  [][\A c \in Channels :
       /\ (/\ Forwards
           /\ event'.channel = c
           /\ Has(event'.message[1], "id")
           /\ dispatchGet(dispatch, <<"request", event'.message[1].method>>) = <<c>>)
          => /\ Len(written') = 1
             /\ written'[1].channel = c
             /\ getMessageType(written'[1].message) = "request"
             /\ written'[1].message.id = chan[c].next_id
             /\ open'[c] = <<event'.message[1]>>
             /\ chan'[c].paused
       /\ \A rcb \in chan[c].awaiting :
            rcb.callback.channel = c =>
              /\ chan[c].paused
              /\ open[c] = <<rcb.callback.msg>>
              /\ Arrives(c, rcb) =>
                   /\ event'.op \in {"result", "failure"}
                   /\ written' =
                        << IF event'.op = "result"
                           THEN ResultTo(c, rcb.callback.msg.id, event'.message[1].result)
                           ELSE FailureTo(c, rcb.callback.msg.id, event'.message[1].error) >>
                   /\ open'[c] = <<>>
                   /\ rcb.callback.msg.id \notin chan'[c].processing
                   /\ ~chan'[c].paused]_vars

\* C35 witness: a child called its own method under identifier 2; the
\* router's call went back to it under identifier 1, and its Result to that
\* call was answered on the same channel under identifier 2.
C35_Witness ==
  /\ event.op = "result"
  /\ event.channel \in Children
  /\ event.message[1].id = 1
  /\ written = <<ResultTo(event.channel, 2, event.message[1].result)>>
  /\ open[event.channel] = <<>>
  /\ ~chan[event.channel].paused

=============================================================================
